---- MODULE Spec2Model ----
(***************************************************************************)
(* Anonymous identity and quota-enforcement core of the colorise backend.  *)
(*                                                                         *)
(* The server exists in two variants: the database-backed server           *)
(* (variant = "db", better-sqlite3 tables users / sessions / user_ips /    *)
(* rate_limits / request_events) and the earlier in-memory server          *)
(* (variant = "mem", the maps anonymousUsers and rateLimits).              *)
(*                                                                         *)
(* Time is counted in whole hours since the start of day 0 of the server's *)
(* local calendar; tz is the offset of the server's local time from UTC,   *)
(* in hours.  A request handler runs on the single JavaScript thread and   *)
(* is atomic between two awaits, so one action models one such synchronous *)
(* stretch of a handler.                                                   *)
(***************************************************************************)
EXTENDS Integers, Sequences, FiniteSets, TLC

VARIABLES variant, tz, now, users, userIps, sessions, rateLimits, events,
          tokens, nextId, req

vars == <<variant, tz, now, users, userIps, sessions, rateLimits, events,
          tokens, nextId, req>>

(***************************************************************************)
(* Bounds of the model.                                                    *)
(***************************************************************************)
MaxHour == 3
MaxHourShort == 1
MaxDay == 1
MaxCalls == 21
MaxCallsDay == 2
MaxCallsSeq == 6
MaxLogins == 2
MaxLoginsView == 6
MaxLoginsSweep == 3
MaxCallsSweep == 2
MaxCallsAdmin == 3
MaxCallsTimes == 3

(***************************************************************************)
(* Program constants.                                                      *)
(***************************************************************************)
HoursPerDay == 24
TokenTTL == 24
SessionViewLimit == 5
SessionRetention == 7 * 24
EventRetention == 90 * 24
MemSessionRetention == 24
JWT_SECRET == "server-secret"

Fingerprints == {"dev-A", "dev-B"}
IPs == {"ip1", "ip2"}
Reqs == {"r1", "r2"}
NoVal == -1

(***************************************************************************)
(* Clock readings: new Date().toDateString() and new Date().getHours().    *)
(***************************************************************************)
toDateString(t) == t \div HoursPerDay

getHours(t) == t % HoursPerDay

(***************************************************************************)
(* Date.toISOString(): the UTC rendering of a local instant.               *)
(***************************************************************************)
toISOString(t) == t - tz

getNextResetTime(t) == toISOString((toDateString(t) + 1) * HoursPerDay)

(***************************************************************************)
(* Limits.                                                                 *)
(***************************************************************************)
Max(a, b) == IF a >= b THEN a ELSE b

getDailyLimit_TwentyOne(u) == 21

getDailyLimit(u) == 20

hourlyLimit(u) == Max(getDailyLimit(u) \div 4, 3)

(***************************************************************************)
(* Table helpers: a table is a function whose domain is the set of keys    *)
(* that have a row.                                                        *)
(***************************************************************************)
Put(f, k, v) == [x \in (DOMAIN f) \cup {k} |-> IF x = k THEN v ELSE f[x]]

EmptyTable == [x \in {} |-> 0]

Idle == [pc |-> "idle", op |-> "none", userId |-> "", sessionId |-> NoVal,
         idx |-> 0, lastError |-> {}, totalTime |-> NoVal, modelUsed |-> "",
         status |-> NoVal, verdict |-> "none", remaining |-> NoVal,
         resetAt |-> NoVal, iat |-> NoVal, sessionsCount |-> NoVal]

(***************************************************************************)
(* rate_limits rows.                                                       *)
(***************************************************************************)
getRateLimit(rl, u) == rl[u]

initializeRateLimit_Replace(rl, u, t) ==
    Put(rl, u, [dailyRequests |-> 0, lastResetDate |-> toDateString(t),
                hourlyRequests |-> 0, lastResetHour |-> getHours(t)])

initializeRateLimit(rl, u, t) ==
    IF u \in DOMAIN rl THEN rl
    ELSE Put(rl, u, [dailyRequests |-> 0, lastResetDate |-> toDateString(t),
                     hourlyRequests |-> 0, lastResetHour |-> getHours(t)])

incrementRateLimit_DailyOnly(rl, u) ==
    IF u \in DOMAIN rl
    THEN [rl EXCEPT ![u].dailyRequests = @ + 1]
    ELSE rl

incrementRateLimit(rl, u) ==
    IF u \in DOMAIN rl
    THEN [rl EXCEPT ![u].dailyRequests = @ + 1, ![u].hourlyRequests = @ + 1]
    ELSE rl

resetDailyRateLimit_Refund(rl, u, t) ==
    IF u \in DOMAIN rl
    THEN [rl EXCEPT ![u].dailyRequests = @ - 1, ![u].lastResetDate = toDateString(t)]
    ELSE rl

resetDailyRateLimit(rl, u, t) ==
    IF u \in DOMAIN rl
    THEN [rl EXCEPT ![u].dailyRequests = 0, ![u].lastResetDate = toDateString(t)]
    ELSE rl

resetHourlyRateLimit_ZeroesDaily(rl, u, t) ==
    IF u \in DOMAIN rl
    THEN [rl EXCEPT ![u].hourlyRequests = 0, ![u].lastResetHour = getHours(t),
                    ![u].dailyRequests = 0]
    ELSE rl

resetHourlyRateLimit(rl, u, t) ==
    IF u \in DOMAIN rl
    THEN [rl EXCEPT ![u].hourlyRequests = 0, ![u].lastResetHour = getHours(t)]
    ELSE rl

memResetDaily(rl, u, t) ==
    [rl EXCEPT ![u].dailyRequests = 0, ![u].lastResetDate = toDateString(t),
               ![u].hourlyRequests = 0, ![u].lastResetHour = getHours(t)]

(***************************************************************************)
(* The lazy reset of checkUserRateLimit: the rate_limits table after the   *)
(* "Reset counters if needed" block.                                       *)
(***************************************************************************)
LazyReset_Everyone(v, rl, u, t) ==
    LET rl0 == initializeRateLimit(rl, u, t) IN
    [w \in DOMAIN rl0 |->
        IF rl0[w].lastResetDate # toDateString(t)
        THEN [rl0[w] EXCEPT !.dailyRequests = 0, !.lastResetDate = toDateString(t)]
        ELSE rl0[w]]

LazyReset(v, rl, u, t) ==
    LET rl0 == initializeRateLimit(rl, u, t) IN
    IF rl0[u].lastResetDate # toDateString(t)
    THEN IF v = "db" THEN resetDailyRateLimit(rl0, u, t) ELSE memResetDaily(rl0, u, t)
    ELSE IF rl0[u].lastResetHour # getHours(t)
         THEN resetHourlyRateLimit(rl0, u, t)
         ELSE rl0

(***************************************************************************)
(* The verdict of checkUserRateLimit on the row read back after the reset. *)
(***************************************************************************)
Verdict_Strict(row, u) ==
    IF row.dailyRequests > getDailyLimit(u) THEN "daily"
    ELSE IF row.hourlyRequests > hourlyLimit(u) THEN "hourly"
    ELSE "allowed"

Verdict(row, u) ==
    IF row.dailyRequests >= getDailyLimit(u) THEN "daily"
    ELSE IF row.hourlyRequests >= hourlyLimit(u) THEN "hourly"
    ELSE "allowed"

checkUserRateLimit(v, rl, u, t) ==
    LET rl1 == LazyReset(v, rl, u, t)
        vd == Verdict(getRateLimit(rl1, u), u)
    IN [table |-> rl1, verdict |-> vd,
        remaining |-> IF vd = "allowed" THEN NoVal ELSE 0,
        resetAt |-> IF vd = "daily" THEN getNextResetTime(t)
                    ELSE IF vd = "hourly" THEN toISOString(t + 1) ELSE NoVal]

(***************************************************************************)
(* users rows, user_ips rows, sessions rows.                               *)
(***************************************************************************)
createUser_NoFingerprint(us, u, fp, t) ==
    Put(us, u, [deviceFingerprint |-> "unknown", createdAt |-> t, lastSeen |-> t,
                requestCount |-> 0, totalProcessingTime |-> 0,
                averageProcessingTime |-> [num |-> 0, den |-> 1]])

createUser(us, u, fp, t) ==
    Put(us, u, [deviceFingerprint |-> fp, createdAt |-> t, lastSeen |-> t,
                requestCount |-> 0, totalProcessingTime |-> 0,
                averageProcessingTime |-> [num |-> 0, den |-> 1]])

updateUserLastSeen_Recreate(us, u, t) == createUser(us, u, u, t)

updateUserLastSeen(us, u, t) ==
    IF u \in DOMAIN us THEN [us EXCEPT ![u].lastSeen = t] ELSE us

updateUserAfterRequest_StaleAverage(us, u, processingTime, t) ==
    IF u \in DOMAIN us
    THEN [us EXCEPT ![u].requestCount = @ + 1,
                    ![u].lastSeen = t,
                    ![u].totalProcessingTime = @ + processingTime,
                    ![u].averageProcessingTime =
                        [num |-> us[u].totalProcessingTime, den |-> us[u].requestCount + 1]]
    ELSE us

updateUserAfterRequest(us, u, processingTime, t) ==
    IF u \in DOMAIN us
    THEN [us EXCEPT ![u].requestCount = @ + 1,
                    ![u].lastSeen = t,
                    ![u].totalProcessingTime = @ + processingTime,
                    ![u].averageProcessingTime =
                        [num |-> us[u].totalProcessingTime + processingTime,
                         den |-> us[u].requestCount + 1]]
    ELSE us

addUserIp_Replace(ips, u, ip) == [ips EXCEPT ![u] = {ip}]

addUserIp(ips, u, ip) == [ips EXCEPT ![u] = @ \cup {ip}]

Last(s, n) == IF Len(s) > n THEN SubSeq(s, Len(s) - n + 1, Len(s)) ELSE s

createSession_Extend(v, ss, u, sid, ip, t) ==
    IF ss[u] = <<>>
    THEN [ss EXCEPT ![u] = <<[sessionId |-> sid, createdAt |-> t, ipAddress |-> ip]>>]
    ELSE [ss EXCEPT ![u][Len(ss[u])].createdAt = t]

createSession(v, ss, u, sid, ip, t) ==
    LET pushed == Append(ss[u], [sessionId |-> sid, createdAt |-> t, ipAddress |-> ip])
    IN [ss EXCEPT ![u] = IF v = "mem" THEN Last(pushed, SessionViewLimit) ELSE pushed]

(***************************************************************************)
(* The session views: the most recent sessions of a user, newest first,    *)
(* and the number of sessions shown by the statistics endpoints.           *)
(***************************************************************************)
Reverse(s) == [i \in 1..Len(s) |-> s[Len(s) + 1 - i]]

getUserSessions(ss, u, limit) == Reverse(Last(ss[u], limit))

getSessionCount(ss, u) == Len(ss[u])

(***************************************************************************)
(* Retention: rows created before the cutoff are deleted.  The in-memory   *)
(* server keeps the sessions created after the cutoff.                     *)
(***************************************************************************)
cleanOldSessions(v, ss, olderThan) ==
    [u \in DOMAIN ss |->
        SelectSeq(ss[u], LAMBDA x : IF v = "db" THEN ~(x.createdAt < olderThan)
                                                ELSE x.createdAt > olderThan)]

cleanOldEvents_KeepsAll(ev, olderThan) == ev

cleanOldEvents(ev, olderThan) ==
    [u \in DOMAIN ev |-> SelectSeq(ev[u], LAMBDA x : ~(x.createdAt < olderThan))]

(***************************************************************************)
(* request_events rows (the in-memory server keeps no event log).          *)
(***************************************************************************)
logEvent(v, ev, u, t, processingTime, model, ok) ==
    IF v = "db"
    THEN [ev EXCEPT ![u] = Append(@, [createdAt |-> t, processingTime |-> processingTime,
                                      modelUsed |-> model, success |-> ok])]
    ELSE ev

(***************************************************************************)
(* Credentials: the payload signed by POST /api/auth/anonymous and the     *)
(* verification of authenticateAnonymous.                                  *)
(***************************************************************************)
Payload_TwoDays(u, sid, t) ==
    [userId |-> u, sessionId |-> sid, type |-> "anonymous", iat |-> t,
     exp |-> t + 2 * TokenTTL]

Payload(u, sid, t) ==
    [userId |-> u, sessionId |-> sid, type |-> "anonymous", iat |-> t, exp |-> t + TokenTTL]

sign(payload, secret) == [payload |-> payload, signature |-> secret]

authenticateAnonymous(tok, t) ==
    /\ tok.signature = JWT_SECRET
    /\ t < tok.payload.exp
    /\ tok.payload.type = "anonymous"

(***************************************************************************)
(* The providers tried by processImageWithReplicate, in order.             *)
(***************************************************************************)
models(v) ==
    IF v = "db" THEN <<"google/nano-banana", "flux-kontext-apps/restore-image">>
    ELSE <<"flux-kontext-apps/restore-image">>

(***************************************************************************)
(* Status of a failed processing call, from the text of the failure; a     *)
(* failure text is modelled by the set of keywords it contains.            *)
(***************************************************************************)
ErrorStatus_TimeoutFirst(msg) ==
    IF "timeout" \in msg \/ "timed out" \in msg THEN 408
    ELSE IF "rate limit" \in msg \/ "quota" \in msg THEN 429
    ELSE IF "invalid" \in msg \/ "format" \in msg THEN 400
    ELSE 500

ErrorStatus(msg) ==
    IF "rate limit" \in msg \/ "quota" \in msg THEN 429
    ELSE IF "invalid" \in msg \/ "format" \in msg THEN 400
    ELSE IF "timeout" \in msg \/ "timed out" \in msg THEN 408
    ELSE 500

Remaining_OffByOne(rl, u) ==
    getDailyLimit(u) - (IF u \in DOMAIN rl THEN rl[u].dailyRequests ELSE 0) - 1

Remaining(rl, u) ==
    getDailyLimit(u) - (IF u \in DOMAIN rl THEN rl[u].dailyRequests ELSE 0)

Free(r) == req[r].pc \in {"idle", "done"}

InFlight(u) == Cardinality({r \in Reqs : req[r].op = "colorise" /\ req[r].userId = u
                                         /\ req[r].pc \in {"run", "update"}})

Logins(u) == Cardinality({tk \in tokens : tk.payload.userId = u})
                + Cardinality({r \in Reqs : req[r].pc = "sign" /\ req[r].userId = u})

(***************************************************************************)
(* State after construction: empty tables, no request in flight.           *)
(***************************************************************************)
InitTables ==
    /\ now = 0
    /\ users = EmptyTable
    /\ userIps = [u \in Fingerprints |-> {}]
    /\ sessions = [u \in Fingerprints |-> <<>>]
    /\ rateLimits = EmptyTable
    /\ events = [u \in Fingerprints |-> <<>>]
    /\ tokens = {}
    /\ nextId = 1
    /\ req = [r \in Reqs |-> Idle]

Init == variant = "db" /\ tz = 0 /\ InitTables

(***************************************************************************)
(* POST /api/auth/anonymous without device_info: 400.                      *)
(***************************************************************************)
AuthMissing_Creating(r) ==
    /\ Free(r)
    /\ req[r] # [Idle EXCEPT !.pc = "done", !.op = "auth", !.status = 400]
    /\ req' = [req EXCEPT ![r] = [Idle EXCEPT !.pc = "done", !.op = "auth", !.status = 400]]
    /\ sessions' = createSession(variant, sessions, "dev-A", nextId, "unknown", now)
    /\ nextId' = nextId + 1
    /\ UNCHANGED <<variant, tz, now, users, userIps, rateLimits, events, tokens>>

AuthMissing(r) ==
    /\ Free(r)
    /\ req[r] # [Idle EXCEPT !.pc = "done", !.op = "auth", !.status = 400]
    /\ req' = [req EXCEPT ![r] = [Idle EXCEPT !.pc = "done", !.op = "auth", !.status = 400]]
    /\ UNCHANGED <<variant, tz, now, users, userIps, sessions, rateLimits, events, tokens, nextId>>

(***************************************************************************)
(* POST /api/auth/anonymous up to "await sign": find or create the user,   *)
(* record the IP, create the session, ensure the rate_limits row.          *)
(***************************************************************************)
AuthAnonymous(r, device_info, clientIP, cap) ==
    LET user_id == device_info IN
    /\ Free(r)
    /\ Logins(user_id) < cap
    /\ users' = IF user_id \notin DOMAIN users
                THEN createUser(users, user_id, device_info, now)
                ELSE updateUserLastSeen(users, user_id, now)
    /\ userIps' = addUserIp(userIps, user_id, clientIP)
    /\ sessions' = createSession(variant, sessions, user_id, nextId, clientIP, now)
    /\ nextId' = nextId + 1
    /\ rateLimits' = initializeRateLimit(rateLimits, user_id, now)
    /\ req' = [req EXCEPT ![r] = [Idle EXCEPT !.pc = "sign", !.op = "auth",
                                              !.userId = user_id, !.sessionId = nextId,
                                              !.iat = now]]
    /\ UNCHANGED <<variant, tz, now, events, tokens>>

(***************************************************************************)
(* POST /api/auth/anonymous after "await sign": the response with the      *)
(* token and the quota snapshot.                                           *)
(***************************************************************************)
AuthRespond(r) ==
    /\ req[r].pc = "sign"
    /\ tokens' = tokens \cup {sign(Payload(req[r].userId, req[r].sessionId, req[r].iat),
                                       JWT_SECRET)}
    /\ req' = [req EXCEPT ![r] = [@ EXCEPT !.pc = "done", !.status = 200, !.iat = NoVal,
                                           !.remaining = Remaining(rateLimits, req[r].userId),
                                           !.resetAt = getNextResetTime(now)]]
    /\ UNCHANGED <<variant, tz, now, users, userIps, sessions, rateLimits, events, nextId>>

(***************************************************************************)
(* POST /api/replicate/colorise, from the arrival of the request to the    *)
(* first await of the handler: authenticateAnonymous, checkRateLimit and   *)
(* the "Image required" test.                                              *)
(***************************************************************************)
Authorize_CheckFirst(r, tok, image, cap) ==
    LET u == tok.payload.userId
        res == checkUserRateLimit(variant, rateLimits, u, now)
    IN
    /\ Free(r)
    /\ u \in DOMAIN users
    /\ users[u].requestCount + InFlight(u) < cap
    /\ rateLimits' = res.table
    /\ req' = [req EXCEPT ![r] =
         IF ~authenticateAnonymous(tok, now)
         THEN [Idle EXCEPT !.pc = "done", !.op = "colorise", !.status = 401]
         ELSE IF res.verdict # "allowed"
         THEN [Idle EXCEPT !.pc = "done", !.op = "colorise", !.userId = u,
                           !.status = 429, !.verdict = res.verdict,
                           !.remaining = res.remaining, !.resetAt = res.resetAt]
         ELSE IF ~image
         THEN [Idle EXCEPT !.pc = "done", !.op = "colorise", !.userId = u,
                           !.status = 400, !.verdict = res.verdict]
         ELSE [Idle EXCEPT !.pc = "run", !.op = "colorise", !.userId = u,
                           !.verdict = res.verdict, !.idx = 1]]
    /\ (rateLimits' # rateLimits \/ req'[r] # req[r])
    /\ UNCHANGED <<variant, tz, now, users, userIps, sessions, events, tokens, nextId>>

Authorize(r, tok, image, cap) ==
    LET u == tok.payload.userId
        res == checkUserRateLimit(variant, rateLimits, u, now)
    IN
    /\ Free(r)
    /\ u \in DOMAIN users
    /\ users[u].requestCount + InFlight(u) < cap
    /\ IF ~authenticateAnonymous(tok, now)
       THEN /\ req[r] # [Idle EXCEPT !.pc = "done", !.op = "colorise", !.status = 401]
            /\ req' = [req EXCEPT ![r] = [Idle EXCEPT !.pc = "done", !.op = "colorise",
                                                      !.status = 401]]
            /\ UNCHANGED rateLimits
       ELSE /\ rateLimits' = res.table
            /\ req' = [req EXCEPT ![r] =
                 IF res.verdict # "allowed"
                 THEN [Idle EXCEPT !.pc = "done", !.op = "colorise", !.userId = u,
                                   !.status = 429, !.verdict = res.verdict,
                                   !.remaining = res.remaining, !.resetAt = res.resetAt]
                 ELSE IF ~image
                 THEN [Idle EXCEPT !.pc = "done", !.op = "colorise", !.userId = u,
                                   !.status = 400, !.verdict = res.verdict]
                 ELSE [Idle EXCEPT !.pc = "run", !.op = "colorise", !.userId = u,
                                   !.verdict = res.verdict, !.idx = 1]]
            /\ (rateLimits' # rateLimits \/ req'[r] # req[r])
    /\ UNCHANGED <<variant, tz, now, users, userIps, sessions, events, tokens, nextId>>

(***************************************************************************)
(* processImageWithReplicate: the provider at position idx fails with the  *)
(* failure text msg.  The next provider is tried; after the last one the   *)
(* failure reaches the catch block of the handler.                         *)
(***************************************************************************)
ProviderFails_Consuming(r, msg) ==
    /\ req[r].pc = "run"
    /\ req' = [req EXCEPT ![r] =
                 IF req[r].idx < Len(models(variant))
                 THEN [@ EXCEPT !.idx = @ + 1, !.lastError = msg]
                 ELSE [@ EXCEPT !.pc = "done", !.lastError = msg,
                                !.status = ErrorStatus(msg)]]
    /\ rateLimits' = IF req[r].idx < Len(models(variant)) THEN rateLimits
                     ELSE incrementRateLimit(rateLimits, req[r].userId)
    /\ UNCHANGED <<variant, tz, now, users, userIps, sessions, events, tokens, nextId>>

ProviderFails(r, msg) ==
    /\ req[r].pc = "run"
    /\ req' = [req EXCEPT ![r] =
                 IF req[r].idx < Len(models(variant))
                 THEN [@ EXCEPT !.idx = @ + 1, !.lastError = msg]
                 ELSE [@ EXCEPT !.pc = "done", !.lastError = msg,
                                !.status = ErrorStatus(msg)]]
    /\ UNCHANGED <<variant, tz, now, users, userIps, sessions, rateLimits, events, tokens, nextId>>

(***************************************************************************)
(* processImageWithReplicate: the provider at position idx returns after   *)
(* totalTime.                                                              *)
(***************************************************************************)
ProviderSucceeds_FirstModel(r, totalTime) ==
    /\ req[r].pc = "run"
    /\ req' = [req EXCEPT ![r] = [@ EXCEPT !.pc = "update", !.totalTime = totalTime,
                                           !.modelUsed = models(variant)[1]]]
    /\ UNCHANGED <<variant, tz, now, users, userIps, sessions, rateLimits, events, tokens, nextId>>

ProviderSucceeds(r, totalTime) ==
    /\ req[r].pc = "run"
    /\ req' = [req EXCEPT ![r] = [@ EXCEPT !.pc = "update", !.totalTime = totalTime,
                                           !.modelUsed = models(variant)[req[r].idx]]]
    /\ UNCHANGED <<variant, tz, now, users, userIps, sessions, rateLimits, events, tokens, nextId>>

(***************************************************************************)
(* The handler after "await processImageWithReplicate": consume the quota, *)
(* update the user's statistics, log the event, answer with the snapshot.  *)
(***************************************************************************)
UpdateAfterRequest(r) ==
    LET u == req[r].userId
        rl1 == incrementRateLimit(rateLimits, u)
    IN
    /\ req[r].pc = "update"
    /\ rateLimits' = rl1
    /\ users' = updateUserAfterRequest(users, u, req[r].totalTime, now)
    /\ events' = logEvent(variant, events, u, now, req[r].totalTime, req[r].modelUsed, TRUE)
    /\ req' = [req EXCEPT ![r] = [@ EXCEPT !.pc = "done", !.status = 200,
                                           !.remaining = Remaining(rl1, u),
                                           !.resetAt = getNextResetTime(now)]]
    /\ UNCHANGED <<variant, tz, now, userIps, sessions, tokens, nextId>>

(***************************************************************************)
(* GET /api/stats: authenticateAnonymous, then the statistics of the user  *)
(* of the credential with the quota snapshot.  Nothing is written.         *)
(***************************************************************************)
Stats(r, tok) ==
    LET u == tok.payload.userId
        answer ==
            IF ~authenticateAnonymous(tok, now)
            THEN [Idle EXCEPT !.pc = "done", !.op = "stats", !.status = 401]
            ELSE IF u \notin DOMAIN users
            THEN [Idle EXCEPT !.pc = "done", !.op = "stats", !.userId = u, !.status = 404]
            ELSE [Idle EXCEPT !.pc = "done", !.op = "stats", !.userId = u, !.status = 200,
                              !.sessionId = tok.payload.sessionId,
                              !.sessionsCount = getSessionCount(sessions, u),
                              !.remaining = Remaining(rateLimits, u),
                              !.resetAt = getNextResetTime(now)]
    IN
    /\ Free(r)
    /\ req[r] # answer
    /\ req' = [req EXCEPT ![r] = answer]
    /\ UNCHANGED <<variant, tz, now, users, userIps, sessions, rateLimits, events, tokens, nextId>>

(***************************************************************************)
(* GET /api/admin/reset/:userId of the development build: the daily reset  *)
(* of a stored user, 404 and no change otherwise.                          *)
(***************************************************************************)
AdminReset(userId) ==
    /\ variant = "db"
    /\ rateLimits' = IF userId \in DOMAIN users
                     THEN resetDailyRateLimit(rateLimits, userId, now)
                     ELSE rateLimits
    /\ UNCHANGED <<variant, tz, now, users, userIps, sessions, events, tokens, nextId, req>>

(***************************************************************************)
(* The cleanup job run by setInterval: sessions older than 7 days and      *)
(* events older than 90 days are deleted (in-memory server: sessions not   *)
(* newer than 1 day).                                                      *)
(***************************************************************************)
CleanupJob_Purge ==
    /\ sessions' = [u \in DOMAIN sessions |-> <<>>]
    /\ events' = [u \in DOMAIN events |-> <<>>]
    /\ users' = EmptyTable
    /\ rateLimits' = EmptyTable
    /\ UNCHANGED <<variant, tz, now, userIps, tokens, nextId, req>>

CleanupJob ==
    /\ sessions' = cleanOldSessions(variant, sessions,
                        now - (IF variant = "db" THEN SessionRetention
                                                 ELSE MemSessionRetention))
    /\ events' = IF variant = "db" THEN cleanOldEvents(events, now - EventRetention)
                                   ELSE events
    /\ UNCHANGED <<variant, tz, now, users, userIps, rateLimits, tokens, nextId, req>>

(***************************************************************************)
(* The wall clock: one hour passes, a whole day passes, or a given number  *)
(* of hours passes up to a horizon.                                        *)
(***************************************************************************)
Elapse(hours, horizon) ==
    /\ now + hours <= horizon
    /\ now' = now + hours
    /\ UNCHANGED <<variant, tz, users, userIps, sessions, rateLimits, events, tokens, nextId, req>>

HourTick(maxHour) ==
    /\ getHours(now) < maxHour
    /\ now' = now + 1
    /\ UNCHANGED <<variant, tz, users, userIps, sessions, rateLimits, events, tokens, nextId, req>>

DayTick(maxDay) ==
    /\ toDateString(now) < maxDay
    /\ now' = now + HoursPerDay
    /\ UNCHANGED <<variant, tz, users, userIps, sessions, rateLimits, events, tokens, nextId, req>>

(***************************************************************************)
(* The requests the clients may send: logins of the identities in fps from *)
(* the addresses in ips, at most logins[u] per identity; protected calls   *)
(* with an issued credential, at most calls[u] successful or pending per   *)
(* identity; provider failures with one of the texts in msgs.              *)
(***************************************************************************)
LoginRequests(rs, fps, ips, logins) ==
    \/ \E r \in rs : AuthMissing(r)
    \/ \E r \in rs, u \in fps, ip \in ips : AuthAnonymous(r, u, ip, logins[u])
    \/ \E r \in rs : AuthRespond(r)

CallRequests(rs, fps, calls) ==
    \/ \E r \in rs, tok \in {tk \in tokens : tk.payload.userId \in fps}, image \in BOOLEAN :
           Authorize(r, tok, image, calls[tok.payload.userId])
    \/ \E r \in rs : ProviderSucceeds(r, 2)
    \/ \E r \in rs : UpdateAfterRequest(r)

TimedCallRequests(rs, fps, calls, times) ==
    \/ \E r \in rs, tok \in {tk \in tokens : tk.payload.userId \in fps}, image \in BOOLEAN :
           Authorize(r, tok, image, calls[tok.payload.userId])
    \/ \E r \in rs, totalTime \in times : ProviderSucceeds(r, totalTime)
    \/ \E r \in rs : UpdateAfterRequest(r)

FailureRequests(rs, msgs) == \E r \in rs, msg \in msgs : ProviderFails(r, msg)

(***************************************************************************)
(* Credentials a client may present besides the issued ones: an issued     *)
(* payload signed with another key, and a payload of another type signed   *)
(* with the server's key.                                                  *)
(***************************************************************************)
Forged(fps) ==
    {sign(tk.payload, "other-secret") : tk \in {x \in tokens : x.payload.userId \in fps}}
    \cup {sign([tk.payload EXCEPT !.type = "service"], JWT_SECRET) :
              tk \in {x \in tokens : x.payload.userId \in fps}}

ForgedRequests(rs, fps, calls) ==
    \E r \in rs, tok \in Forged(fps) : Authorize(r, tok, TRUE, calls[tok.payload.userId])

(***************************************************************************)
(* A credential of the server's key whose identity is not stored, as one   *)
(* issued before the database file was replaced.                           *)
(***************************************************************************)
Orphans(fps) == {sign(Payload(u, 0, 0), JWT_SECRET) : u \in fps \ DOMAIN users}

OrphanStatsRequests(rs, fps) == \E r \in rs, tok \in Orphans(fps) : Stats(r, tok)

StatsRequests(rs, fps) ==
    \E r \in rs, tok \in {tk \in tokens : tk.payload.userId \in fps} : Stats(r, tok)

Serve(rs, fps, ips, logins, calls, msgs) ==
    \/ LoginRequests(rs, fps, ips, logins)
    \/ CallRequests(rs, fps, calls)
    \/ FailureRequests(rs, msgs)

(***************************************************************************)
(* Spec: the database-backed server under concurrent requests of two       *)
(* identities, over two hours of two days.                                 *)
(***************************************************************************)
Next ==
    \/ Serve(Reqs, Fingerprints, {"ip1"},
             [u \in Fingerprints |-> IF u = "dev-A" THEN MaxLogins ELSE 1],
             [u \in Fingerprints |-> IF u = "dev-A" THEN MaxCallsDay ELSE 0],
             {{"timeout"}})
    \/ HourTick(MaxHourShort)
    \/ DayTick(MaxDay)

Spec == Init /\ [][Next]_vars

(***************************************************************************)
(* SpecVariants: as Spec, for either variant of the server and for every   *)
(* category of provider failure.                                           *)
(***************************************************************************)
FailureTexts == {{"quota"}, {"format"}, {"timeout"}, {},
                 {"rate limit", "timed out"}, {"invalid", "timeout"}}

InitVariants == variant \in {"db", "mem"} /\ tz = 0 /\ InitTables

NextVariants ==
    \/ Serve(Reqs, {"dev-A"}, {"ip1"},
             [u \in Fingerprints |-> 1],
             [u \in Fingerprints |-> MaxCallsDay],
             FailureTexts)
    \/ HourTick(MaxHourShort)
    \/ DayTick(MaxDay)

SpecVariants == InitVariants /\ [][NextVariants]_vars

(***************************************************************************)
(* An eager client: it lets an hour pass only after a call was rejected    *)
(* with 429.                                                               *)
(***************************************************************************)
Rejected == \E r \in Reqs : req[r].pc = "done" /\ req[r].status = 429

(***************************************************************************)
(* SpecDaily: one day of strictly sequential calls of dev-A (slot r1),     *)
(* enough to use up the daily quota, while dev-B logs in (slot r2); the    *)
(* first provider always succeeds.                                         *)
(***************************************************************************)
NextDaily ==
    \/ LoginRequests({"r1"}, {"dev-A"}, {"ip1"}, [u \in Fingerprints |-> 1])
    \/ CallRequests({"r1"}, {"dev-A"}, [u \in Fingerprints |-> MaxCalls])
    \/ LoginRequests({"r2"}, {"dev-B"}, {"ip2"}, [u \in Fingerprints |-> 1])
    \/ (Rejected /\ HourTick(MaxHour))

SpecDaily == Init /\ [][NextDaily]_vars

(***************************************************************************)
(* SpecRace: as SpecDaily, with two calls of dev-A in flight at a time.    *)
(***************************************************************************)
NextRace ==
    \/ LoginRequests({"r1"}, {"dev-A"}, {"ip1"}, [u \in Fingerprints |-> 1])
    \/ CallRequests(Reqs, {"dev-A"}, [u \in Fingerprints |-> MaxCalls])
    \/ (Rejected /\ HourTick(MaxHour))

SpecRace == Init /\ [][NextRace]_vars

(***************************************************************************)
(* SpecDay: strictly sequential calls of dev-A over two hours of two days; *)
(* no call is in flight when the clock advances, so every call is checked  *)
(* and completed within one clock hour.                                    *)
(***************************************************************************)
Quiet == \A r \in Reqs : req[r].pc \notin {"run", "update"}

NextDay ==
    \/ Serve({"r1"}, {"dev-A"}, {"ip1"},
             [u \in Fingerprints |-> MaxLogins],
             [u \in Fingerprints |-> MaxCallsSeq],
             {{"timeout"}})
    \/ (Quiet /\ HourTick(MaxHourShort))
    \/ (Quiet /\ DayTick(MaxDay))

SpecDay == Init /\ [][NextDay]_vars

(***************************************************************************)
(* SpecCredentials: concurrent logins of two identities from two           *)
(* addresses, with and without device_info, one protected call of dev-A,   *)
(* over two days.                                                          *)
(***************************************************************************)
NextCredentials ==
    \/ LoginRequests(Reqs, Fingerprints, IPs,
                     [u \in Fingerprints |-> IF u = "dev-A" THEN MaxLogins ELSE 1])
    \/ CallRequests({"r1"}, {"dev-A"}, [u \in Fingerprints |-> 1])
    \/ DayTick(MaxDay)

SpecCredentials == Init /\ [][NextCredentials]_vars

(***************************************************************************)
(* SpecGuarded: as SpecDay, with clients that also present credentials     *)
(* signed with another key or of another type.                             *)
(***************************************************************************)
NextGuarded ==
    \/ NextDay
    \/ ForgedRequests({"r1"}, {"dev-A"}, [u \in Fingerprints |-> MaxCallsSeq])

SpecGuarded == Init /\ [][NextGuarded]_vars

(***************************************************************************)
(* SpecSessions: sequential logins of dev-A, more than the session view    *)
(* holds, while dev-A asks for its statistics, over two days.              *)
(***************************************************************************)
NextSessions ==
    \/ LoginRequests({"r1"}, {"dev-A"}, {"ip1"}, [u \in Fingerprints |-> MaxLoginsView])
    \/ StatsRequests({"r2"}, {"dev-A"})
    \/ DayTick(MaxDay)

SpecSessions == Init /\ [][NextSessions]_vars

(***************************************************************************)
(* SpecSweep: sequential logins and calls of dev-A over 90 days and a few  *)
(* hours, with the cleanup job running at any time.  The clock advances by *)
(* an hour at the start of a day, by the session retention in the first    *)
(* day, and from there to the event retention.                             *)
(***************************************************************************)
NextSweep ==
    \/ LoginRequests({"r1"}, {"dev-A"}, {"ip1"}, [u \in Fingerprints |-> MaxLoginsSweep])
    \/ CallRequests({"r1"}, {"dev-A"}, [u \in Fingerprints |-> MaxCallsSweep])
    \/ CleanupJob
    \/ (Quiet /\ HourTick(MaxHourShort))
    \/ (Quiet /\ Elapse(SessionRetention, SessionRetention + MaxHourShort))
    \/ (Quiet /\ now >= SessionRetention
              /\ Elapse(EventRetention - SessionRetention, EventRetention + MaxHourShort))

SpecSweep == Init /\ [][NextSweep]_vars

(***************************************************************************)
(* SpecLive: the database-backed server with the scheduling of its own     *)
(* continuations: the promise of sign settles and the statements after an  *)
(* awaited provider call run once the call has settled.  The handler sets  *)
(* no timer on the provider call, so nothing forces a provider to settle.  *)
(***************************************************************************)
NextLive ==
    \/ Serve(Reqs, {"dev-A"}, {"ip1"},
             [u \in Fingerprints |-> 1],
             [u \in Fingerprints |-> MaxCallsDay],
             {{"timeout"}})
    \/ HourTick(MaxHourShort)

SpecLive ==
    /\ Init
    /\ [][NextLive]_vars
    /\ \A r \in Reqs : WF_vars(AuthRespond(r))
    /\ \A r \in Reqs : WF_vars(UpdateAfterRequest(r))

(***************************************************************************)
(* SpecZones: strictly sequential logins, calls and statistics requests of *)
(* dev-A around local midnight, on a server whose local time is one hour   *)
(* behind UTC, UTC, or one hour ahead of UTC.                              *)
(***************************************************************************)
Zones == {-1, 0, 1}

InitZones == variant = "db" /\ tz \in Zones /\ InitTables

NextZones ==
    \/ Serve({"r1"}, {"dev-A"}, {"ip1"},
             [u \in Fingerprints |-> MaxLogins],
             [u \in Fingerprints |-> MaxCallsDay],
             {{"timeout"}})
    \/ StatsRequests({"r1"}, {"dev-A"})
    \/ (Quiet /\ HourTick(MaxHourShort))
    \/ (Quiet /\ DayTick(MaxDay))

SpecZones == InitZones /\ [][NextZones]_vars

(***************************************************************************)
(* SpecAdmin: sequential calls of dev-A over two hours of two days in the  *)
(* development build, where an operator may reset the daily quota of a     *)
(* user at any moment.                                                     *)
(***************************************************************************)
NextAdmin ==
    \/ Serve({"r1"}, {"dev-A"}, {"ip1"},
             [u \in Fingerprints |-> MaxLogins],
             [u \in Fingerprints |-> MaxCallsAdmin],
             {{"timeout"}})
    \/ (Quiet /\ HourTick(MaxHourShort))
    \/ (Quiet /\ DayTick(MaxDay))
    \/ \E u \in Fingerprints : AdminReset(u)

SpecAdmin == Init /\ [][NextAdmin]_vars

(***************************************************************************)
(* SpecTimes: either server, concurrent calls of dev-A whose processing     *)
(* takes 1 or 3 units of time, some of them failing.                       *)
(***************************************************************************)
ProcessingTimes == {1, 3}

NextTimes ==
    \/ LoginRequests({"r1"}, {"dev-A"}, {"ip1"}, [u \in Fingerprints |-> 1])
    \/ TimedCallRequests(Reqs, {"dev-A"}, [u \in Fingerprints |-> MaxCallsTimes],
                         ProcessingTimes)
    \/ FailureRequests(Reqs, {{"timeout"}})

SpecTimes == InitVariants /\ [][NextTimes]_vars

(***************************************************************************)
(* SpecLogins: either server, logins of dev-A from two addresses on two    *)
(* connections at once.                                                    *)
(***************************************************************************)
NextLogins ==
    LoginRequests(Reqs, {"dev-A"}, IPs, [u \in Fingerprints |-> MaxLoginsView])

SpecLogins == InitVariants /\ [][NextLogins]_vars

(***************************************************************************)
(* SpecLegacy: the database-backed server opened on a database file that   *)
(* already holds the users row of dev-A with another device fingerprint    *)
(* (the schema asks only for NOT NULL); logins of both identities from two *)
(* addresses and a call of dev-A, over two days.                           *)
(***************************************************************************)
LegacyFingerprint == "dev-A-v1"

InitLegacy ==
    /\ variant = "db" /\ tz = 0 /\ now = 0
    /\ users = createUser(EmptyTable, "dev-A", LegacyFingerprint, 0)
    /\ userIps = [u \in Fingerprints |-> IF u = "dev-A" THEN {"ip1"} ELSE {}]
    /\ sessions = [u \in Fingerprints |-> <<>>]
    /\ rateLimits = initializeRateLimit(EmptyTable, "dev-A", 0)
    /\ events = [u \in Fingerprints |-> <<>>]
    /\ tokens = {}
    /\ nextId = 1
    /\ req = [r \in Reqs |-> Idle]

SpecLegacy == InitLegacy /\ [][NextCredentials]_vars

(***************************************************************************)
(* SpecRetry: as SpecDay, with the logins of dev-A on a connection of      *)
(* their own, so that the connection of the calls shows the answer to the  *)
(* last call until the next one is sent.                                   *)
(***************************************************************************)
NextRetry ==
    \/ LoginRequests({"r2"}, {"dev-A"}, {"ip1"}, [u \in Fingerprints |-> MaxLogins])
    \/ CallRequests({"r1"}, {"dev-A"}, [u \in Fingerprints |-> MaxCallsSeq])
    \/ (Quiet /\ HourTick(MaxHourShort))
    \/ (Quiet /\ DayTick(MaxDay))

SpecRetry == Init /\ [][NextRetry]_vars

(***************************************************************************)
(* SpecStats: logins of two identities and a call of dev-A, statistics     *)
(* requests with issued credentials and with credentials of identities     *)
(* that are not stored, and the cleanup job, over two days.                *)
(***************************************************************************)
NextStats ==
    \/ LoginRequests({"r1"}, Fingerprints, {"ip1"}, [u \in Fingerprints |-> 1])
    \/ CallRequests({"r1"}, {"dev-A"}, [u \in Fingerprints |-> 1])
    \/ StatsRequests({"r2"}, Fingerprints)
    \/ OrphanStatsRequests({"r2"}, Fingerprints)
    \/ CleanupJob
    \/ DayTick(MaxDay)

SpecStats == Init /\ [][NextStats]_vars

(***************************************************************************)
(* Steps of a protected call, recognised by what they do to its slot.      *)
(***************************************************************************)
CheckStep(r, u) ==
    /\ req[r].pc \in {"idle", "done"}
    /\ req'[r] # req[r]
    /\ req'[r].op = "colorise"
    /\ req'[r].userId = u
    /\ req'[r].verdict # "none"

ConsumeStep(r) == req[r].pc = "update" /\ req'[r].pc = "done"

FailStep(r) == req[r].pc = "run" /\ req'[r].pc = "done"

LoginStep(r, u) ==
    /\ req[r].pc \in {"idle", "done"}
    /\ req'[r].pc = "sign"
    /\ req'[r].userId = u

SucceededAt(u, t) == Cardinality({i \in 1..Len(events[u]) : events[u][i].createdAt = t
                                                             /\ events[u][i].success})

SucceededOn(u, d) == Cardinality({i \in 1..Len(events[u]) :
                                     events[u][i].createdAt \div 24 = d /\ events[u][i].success})

(***************************************************************************)
(* C1: for every identity, in every reachable state, dailyRequests is at   *)
(* most the daily limit of 20, also when calls of the same identity run    *)
(* concurrently.                                                           *)
(***************************************************************************)
C1_DailyWithinLimit ==
    \A u \in DOMAIN rateLimits : rateLimits[u].dailyRequests <= 20

(***************************************************************************)
(* C2: a quota check made when the stored lastResetDate is not today       *)
(* leaves the row at (0, 0, today, current hour), and the verdict is       *)
(* taken on these values.                                                  *)
(***************************************************************************)
C2_DayRolloverResetsBoth ==
    [][\A r \in Reqs, u \in DOMAIN rateLimits :
         (CheckStep(r, u) /\ rateLimits[u].lastResetDate # now \div 24)
         => /\ rateLimits'[u] = [dailyRequests |-> 0, hourlyRequests |-> 0,
                                 lastResetDate |-> now \div 24,
                                 lastResetHour |-> now % 24]
            /\ req'[r].verdict = "allowed"]_vars

(***************************************************************************)
(* C3: a quota check made when lastResetDate is today and lastResetHour is *)
(* not the current hour sets hourlyRequests to 0 and lastResetHour to the  *)
(* current hour and leaves dailyRequests and lastResetDate as they were.   *)
(***************************************************************************)
C3_HourRolloverResetsHourlyOnly ==
    [][\A r \in Reqs, u \in DOMAIN rateLimits :
         (/\ CheckStep(r, u)
          /\ rateLimits[u].lastResetDate = now \div 24
          /\ rateLimits[u].lastResetHour # now % 24)
         => rateLimits'[u] = [dailyRequests |-> rateLimits[u].dailyRequests,
                              hourlyRequests |-> 0,
                              lastResetDate |-> rateLimits[u].lastResetDate,
                              lastResetHour |-> now % 24]]_vars

C3_Witness ==
    \E u \in DOMAIN rateLimits :
        /\ rateLimits[u].dailyRequests >= 1
        /\ rateLimits[u].hourlyRequests = 0
        /\ rateLimits[u].lastResetDate = now \div 24
        /\ rateLimits[u].lastResetHour = now % 24
        /\ \E r \in Reqs : req[r].userId = u /\ req[r].pc = "run"

(***************************************************************************)
(* C4: the verdict of a quota check is DailyLimitExceeded iff the stored   *)
(* dailyRequests after the lazy reset is at least 20, else                 *)
(* HourlyLimitExceeded iff the stored hourlyRequests is at least 5, else   *)
(* allowed; a rejection is answered 429.                                   *)
(***************************************************************************)
C4_Verdict ==
    [][\A r \in Reqs, u \in Fingerprints :
         CheckStep(r, u)
         => LET row == rateLimits'[u] IN
            /\ req'[r].verdict = (IF row.dailyRequests >= 20 THEN "daily"
                                  ELSE IF row.hourlyRequests >= 5 THEN "hourly"
                                  ELSE "allowed")
            /\ (req'[r].status = 429) = (req'[r].verdict # "allowed")
            /\ (req'[r].pc = "run" \/ req'[r].status = 400) = (req'[r].verdict = "allowed")]_vars

C4_Witness ==
    \E r \in Reqs :
        /\ req[r].pc = "done" /\ req[r].verdict = "daily" /\ req[r].status = 429
        /\ rateLimits[req[r].userId].dailyRequests >= 20
        /\ rateLimits[req[r].userId].hourlyRequests >= 5

(***************************************************************************)
(* C5: the step that follows a successful processing adds exactly 1 to     *)
(* dailyRequests and to hourlyRequests of the caller, adds exactly 1 to    *)
(* its requestCount and appends exactly one usage event, with success.     *)
(***************************************************************************)
C5_ConsumeOnSuccess ==
    [][\A r \in Reqs :
         ConsumeStep(r)
         => LET u == req[r].userId IN
            /\ rateLimits'[u] = [dailyRequests |-> rateLimits[u].dailyRequests + 1,
                                 hourlyRequests |-> rateLimits[u].hourlyRequests + 1,
                                 lastResetDate |-> rateLimits[u].lastResetDate,
                                 lastResetHour |-> rateLimits[u].lastResetHour]
            /\ users'[u].requestCount = users[u].requestCount + 1
            /\ Len(events'[u]) = Len(events[u]) + 1
            /\ SubSeq(events'[u], 1, Len(events[u])) = events[u]
            /\ events'[u][Len(events'[u])].success = TRUE
            /\ \A v \in Fingerprints \ {u} : events'[v] = events[v]
            /\ req'[r].status = 200]_vars

C5_Witness ==
    \E r \in Reqs :
        /\ req[r].op = "colorise" /\ req[r].pc = "done" /\ req[r].status = 200
        /\ Len(events[req[r].userId]) >= 1
        /\ rateLimits[req[r].userId].dailyRequests >= 1

(***************************************************************************)
(* C6: a step in which a provider fails, up to and including the failure   *)
(* response of the call, changes no QuotaState and no Identity counter.    *)
(***************************************************************************)
C6_FailureConsumesNothing ==
    [][\A r \in Reqs :
         (req[r].pc = "run" /\ req'[r].pc \in {"run", "done"} /\ req'[r] # req[r])
         => /\ rateLimits' = rateLimits
            /\ users' = users
            /\ (req'[r].pc = "done" => req'[r].status \in {400, 408, 429, 500})]_vars

C6_Witness ==
    \E r \in Reqs :
        /\ req[r].op = "colorise" /\ req[r].pc = "done" /\ req[r].verdict = "allowed"
        /\ req[r].status = 408
        /\ users[req[r].userId].requestCount >= 1

(***************************************************************************)
(* C7: the failure response of a call whose providers all failed appends   *)
(* one usage event with success = false for the caller.                    *)
(***************************************************************************)
C7_EventOnFailure ==
    [][\A r \in Reqs :
         FailStep(r)
         => LET u == req[r].userId IN
            /\ Len(events'[u]) = Len(events[u]) + 1
            /\ events'[u][Len(events'[u])].success = FALSE]_vars

(***************************************************************************)
(* C8: in one day of sequential calls, a call of dev-A is rejected with    *)
(* DailyLimitExceeded (429, remaining 0) exactly when 20 of its calls      *)
(* succeeded before, every successful call is answered 200, and the login  *)
(* of dev-B reports remaining = 20 whatever dev-A has used.                *)
(***************************************************************************)
C8_TwentyFirstRejected ==
    /\ [][\A r \in Reqs :
            /\ CheckStep(r, "dev-A")
               => /\ (req'[r].verdict = "daily") = (SucceededOn("dev-A", now \div 24) = 20)
                  /\ (req'[r].verdict = "daily")
                        => (req'[r].status = 429 /\ req'[r].remaining = 0)
            /\ ConsumeStep(r) => req'[r].status = 200]_vars
    /\ [](\A r \in Reqs :
            (req[r].op = "auth" /\ req[r].pc = "done" /\ req[r].userId = "dev-B")
            => (req[r].status = 200 /\ req[r].remaining = 20))

C8_Witness ==
    /\ req["r1"].op = "colorise" /\ req["r1"].userId = "dev-A"
    /\ req["r1"].verdict = "daily" /\ req["r1"].remaining = 0
    /\ SucceededOn("dev-A", now \div 24) = 20
    /\ req["r2"].op = "auth" /\ req["r2"].userId = "dev-B" /\ req["r2"].remaining = 20
    /\ "dev-B" \in DOMAIN users /\ users["dev-B"].createdAt = now

(***************************************************************************)
(* C9: in sequential use, a call is rejected with HourlyLimitExceeded      *)
(* exactly when 5 calls of the identity succeeded in the current clock     *)
(* hour and fewer than 20 in the current day; the rejected call consumes   *)
(* no quota.                                                               *)
(***************************************************************************)
C9_SixthInHourRejected ==
    [][\A r \in Reqs, u \in Fingerprints :
         CheckStep(r, u)
         => /\ (req'[r].verdict = "hourly")
                  = (SucceededAt(u, now) = 5 /\ SucceededOn(u, now \div 24) < 20)
            /\ (req'[r].verdict = "hourly")
                  => /\ req'[r].status = 429
                     /\ rateLimits'[u].dailyRequests = SucceededOn(u, now \div 24)
                     /\ users' = users /\ events' = events]_vars

(***************************************************************************)
(* C10: a login never adds an Identity for a userId that has one, and      *)
(* leaves requestCount, createdAt and deviceFingerprint of the existing    *)
(* Identity unchanged; a login of a new userId adds exactly that Identity. *)
(***************************************************************************)
C10_LoginIdempotent ==
    [][\A r \in Reqs, u \in Fingerprints :
         LoginStep(r, u)
         => /\ DOMAIN users' = DOMAIN users \cup {u}
            /\ \A v \in DOMAIN users :
                  /\ users'[v].requestCount = users[v].requestCount
                  /\ users'[v].createdAt = users[v].createdAt
                  /\ users'[v].deviceFingerprint = users[v].deviceFingerprint]_vars

C10_Witness ==
    \E u \in DOMAIN users :
        /\ Len(sessions[u]) >= 2
        /\ users[u].requestCount >= 1
        /\ users[u].createdAt < users[u].lastSeen
        /\ \E r \in Reqs : req[r].pc = "sign" /\ req[r].userId = u

(***************************************************************************)
(* C11: a login creates the QuotaState of its identity, with zero counters *)
(* and today's date and hour, only when the identity has none; when one    *)
(* exists the login leaves every QuotaState as it is, whatever quota was   *)
(* consumed.                                                               *)
(***************************************************************************)
C11_LoginKeepsQuotaState ==
    [][\A r \in Reqs, u \in Fingerprints :
         LoginStep(r, u)
         => IF u \in DOMAIN rateLimits
            THEN rateLimits' = rateLimits
            ELSE /\ DOMAIN rateLimits' = DOMAIN rateLimits \cup {u}
                 /\ rateLimits'[u] = [dailyRequests |-> 0, hourlyRequests |-> 0,
                                      lastResetDate |-> now \div 24,
                                      lastResetHour |-> now % 24]
                 /\ \A v \in DOMAIN rateLimits : rateLimits'[v] = rateLimits[v]]_vars

C11_Witness ==
    \E r \in Reqs :
        /\ req[r].op = "auth" /\ req[r].pc = "sign"
        /\ req[r].userId \in DOMAIN rateLimits
        /\ rateLimits[req[r].userId].dailyRequests = 1
        /\ rateLimits[req[r].userId].lastResetDate < now \div 24
        /\ Len(sessions[req[r].userId]) >= 2

(***************************************************************************)
(* C12: a login request without device_info is answered 400 and changes    *)
(* no Identity, Session, known-IP set or QuotaState and issues no          *)
(* credential.                                                             *)
(***************************************************************************)
C12_MissingFingerprint ==
    [][\A r \in Reqs :
         (/\ req[r].pc \in {"idle", "done"}
          /\ req'[r] # req[r]
          /\ req'[r].op = "auth"
          /\ req'[r].userId = "")
         => /\ req'[r].pc = "done"
            /\ req'[r].status = 400
            /\ req'[r].sessionId = NoVal
            /\ UNCHANGED <<users, userIps, sessions, rateLimits, events, tokens, nextId>>]_vars

C12_Witness ==
    \E r \in Reqs :
        /\ req[r].op = "auth" /\ req[r].pc = "done" /\ req[r].status = 400
        /\ users # EmptyTable
        /\ tokens # {}
        /\ \E q \in Reqs : req[q].pc = "sign"

(***************************************************************************)
(* A protected call arrives in slot r with the credential tok.             *)
(***************************************************************************)
Presented == tokens \cup Forged(Fingerprints)

AuthorizeStep(r, tok) == \E image \in BOOLEAN : Authorize(r, tok, image, MaxCalls)

(***************************************************************************)
(* C13: the credential issued by a login carries the userId and the new    *)
(* sessionId of that login, type "anonymous", iat = the time of the login  *)
(* and exp = iat + 24 h; a protected call that presents a credential is    *)
(* answered 401 exactly when the credential is not an issued one, or its   *)
(* type is not "anonymous", or 24 h or more have passed since its iat.     *)
(***************************************************************************)
C13_CredentialLifetime ==
    [][/\ \A r \in Reqs :
             (req[r].pc = "sign" /\ req'[r].pc = "done")
             => LET u == req[r].userId
                IN \E tk \in tokens' \ tokens :
                      /\ tokens' = tokens \cup {tk}
                      /\ tk.payload.userId = u
                      /\ tk.payload.sessionId = req'[r].sessionId
                      /\ \E i \in 1..Len(sessions[u]) :
                            /\ sessions[u][i].sessionId = tk.payload.sessionId
                            /\ sessions[u][i].createdAt = tk.payload.iat
                      /\ tk.payload.type = "anonymous"
                      /\ tk.payload.exp = tk.payload.iat + 24
                      /\ tk.payload.iat <= now
       /\ \A r \in Reqs, tok \in Presented :
             AuthorizeStep(r, tok)
             => ((req'[r].status = 401)
                   = ~(/\ tok \in tokens
                       /\ tok.payload.type = "anonymous"
                       /\ now < tok.payload.iat + 24))]_vars

C13_Witness ==
    /\ req["r1"].op = "colorise" /\ req["r1"].status = 200
    /\ \E tk \in tokens : tk.payload.iat + 24 <= now
    /\ \E tk \in tokens : now < tk.payload.iat + 24
    /\ now = 24

(***************************************************************************)
(* C14: a protected call whose credential is invalid or expired is         *)
(* answered 401 and changes no table (no lazy reset of the QuotaState); a  *)
(* call rejected by the quota check is answered 429, is never handed to a  *)
(* provider and consumes nothing; a call is handed to a provider only      *)
(* after its credential was verified and the quota check allowed it.       *)
(***************************************************************************)
C14_VerifyThenCheckThenProcess ==
    /\ [][\A r \in Reqs, tok \in Presented :
            AuthorizeStep(r, tok)
            => LET u == tok.payload.userId IN
               /\ (tok \notin tokens \/ tok.payload.type # "anonymous"
                                      \/ now >= tok.payload.exp)
                    => /\ req'[r].pc = "done" /\ req'[r].status = 401
                       /\ req'[r].verdict = "none"
                       /\ UNCHANGED <<users, userIps, sessions, rateLimits, events,
                                      tokens, nextId>>
               /\ req'[r].status = 429
                    => /\ req'[r].pc = "done"
                       /\ req'[r].verdict \in {"daily", "hourly"}
                       /\ rateLimits'[u].dailyRequests <= rateLimits[u].dailyRequests
                       /\ rateLimits'[u].hourlyRequests <= rateLimits[u].hourlyRequests
                       /\ UNCHANGED <<users, events>>
               /\ req'[r].pc = "run" => req'[r].verdict = "allowed"]_vars
    /\ [][\A r \in Reqs :
            (req[r].pc = "done" /\ req'[r].pc \in {"run", "update"})
            => (req'[r].pc = "run" /\ req'[r].verdict = "allowed")]_vars
    /\ [](\A r \in Reqs : req[r].pc \in {"run", "update"} => req[r].verdict = "allowed")

C14_Witness ==
    /\ req["r1"].op = "colorise" /\ req["r1"].pc = "done" /\ req["r1"].status = 401
    /\ \A tk \in tokens : tk.payload.exp <= now
    /\ "dev-A" \in DOMAIN rateLimits
    /\ rateLimits["dev-A"].lastResetDate # now \div 24
    /\ rateLimits["dev-A"].hourlyRequests = 5

(***************************************************************************)
(* The session ids that exist or were handed out.                          *)
(***************************************************************************)
SessionIds ==
    (UNION {{sessions[u][i].sessionId : i \in 1..Len(sessions[u])} : u \in Fingerprints}
       \cup {tk.payload.sessionId : tk \in tokens}
       \cup {req[r].sessionId : r \in Reqs}) \ {NoVal}

(***************************************************************************)
(* C15: a login appends one Session to the sessions of its identity, with  *)
(* a sessionId that no session and no credential carried before, and       *)
(* leaves every existing Session as it is; no step changes or removes an   *)
(* issued credential, whose expiry stays 24 h after the creation of its    *)
(* session.                                                                *)
(***************************************************************************)
C15_FreshSession ==
    /\ [][\A r \in Reqs, u \in Fingerprints :
            LoginStep(r, u)
            => /\ Len(sessions'[u]) = Len(sessions[u]) + 1
               /\ SubSeq(sessions'[u], 1, Len(sessions[u])) = sessions[u]
               /\ sessions'[u][Len(sessions'[u])].sessionId = req'[r].sessionId
               /\ req'[r].sessionId \notin SessionIds
               /\ \A v \in Fingerprints \ {u} : sessions'[v] = sessions[v]]_vars
    /\ [][tokens \subseteq tokens']_vars
    /\ [](\A tk \in tokens :
            \E i \in 1..Len(sessions[tk.payload.userId]) :
                /\ sessions[tk.payload.userId][i].sessionId = tk.payload.sessionId
                /\ tk.payload.exp = sessions[tk.payload.userId][i].createdAt + 24)
    /\ [](\A u \in Fingerprints : \A i, j \in 1..Len(sessions[u]) :
            i # j => sessions[u][i].sessionId # sessions[u][j].sessionId)

C15_Witness ==
    /\ req["r1"].pc = "sign" /\ req["r2"].pc = "sign"
    /\ req["r1"].userId = req["r2"].userId
    /\ req["r1"].sessionId # req["r2"].sessionId
    /\ Len(sessions[req["r1"].userId]) = 2
    /\ sessions[req["r1"].userId][1].sessionId # sessions[req["r1"].userId][2].sessionId

(***************************************************************************)
(* C16: the sessions shown for an identity, the list of getUserSessions    *)
(* and the sessionsCount of the statistics, have at most 5 entries, the    *)
(* list holding the most recent ones, while every session created less     *)
(* than 7 days ago is still stored.                                        *)
(***************************************************************************)
C16_RecentViewBounded ==
    /\ \A u \in Fingerprints :
          LET view == getUserSessions(sessions, u, 5) IN
          /\ Len(view) <= 5
          /\ \A i \in 1..Len(view) : view[i] = sessions[u][Len(sessions[u]) + 1 - i]
    /\ \A r \in Reqs :
          (req[r].op = "stats" /\ req[r].status = 200) => req[r].sessionsCount <= 5
    /\ \A tk \in tokens :
          now - tk.payload.iat < 7 * 24
          => \E i \in 1..Len(sessions[tk.payload.userId]) :
                sessions[tk.payload.userId][i].sessionId = tk.payload.sessionId

(***************************************************************************)
(* C17: a run of the cleanup job at time now leaves no usage event created *)
(* more than 90 days before now and no session created more than 7 days    *)
(* before now, removes no event newer than 90 days and no session newer    *)
(* than 7 days, and adds or changes no row.                                *)
(***************************************************************************)
C17_RetentionSweep ==
    [][CleanupJob
       => \A u \in Fingerprints :
            /\ \A i \in 1..Len(events'[u]) : ~(events'[u][i].createdAt < now - 90 * 24)
            /\ \A i \in 1..Len(sessions'[u]) : ~(sessions'[u][i].createdAt < now - 7 * 24)
            /\ \A i \in 1..Len(events[u]) :
                  events[u][i].createdAt > now - 90 * 24
                  => \E j \in 1..Len(events'[u]) : events'[u][j] = events[u][i]
            /\ \A i \in 1..Len(sessions[u]) :
                  sessions[u][i].createdAt > now - 7 * 24
                  => \E j \in 1..Len(sessions'[u]) : sessions'[u][j] = sessions[u][i]
            /\ \A j \in 1..Len(events'[u]) :
                  \E i \in 1..Len(events[u]) : events[u][i] = events'[u][j]
            /\ \A j \in 1..Len(sessions'[u]) :
                  \E i \in 1..Len(sessions[u]) : sessions[u][i] = sessions'[u][j]
            /\ Len(events'[u]) <= Len(events[u])
            /\ Len(sessions'[u]) <= Len(sessions[u])]_vars

C17_Witness ==
    /\ now > 90 * 24
    /\ Len(events["dev-A"]) = 1
    /\ events["dev-A"][1].createdAt > now - 90 * 24
    /\ users["dev-A"].requestCount = 2
    /\ Len(sessions["dev-A"]) = 1
    /\ sessions["dev-A"][1].createdAt > now - 7 * 24
    /\ Cardinality(tokens) = 3

(***************************************************************************)
(* C18: every protected call that was handed to a provider is eventually   *)
(* answered, and an answer 408 leaves dailyRequests and hourlyRequests of  *)
(* the caller as they were.                                                *)
(***************************************************************************)
C18_EventuallyAnswered ==
    /\ \A r \in Reqs : (req[r].pc = "run") ~> (req[r].pc = "done")
    /\ [][\A r \in Reqs :
            (req[r].pc = "run" /\ req'[r].status = 408)
            => rateLimits' = rateLimits]_vars

(***************************************************************************)
(* UTC readings of the clock, and the successful calls of an identity in   *)
(* the UTC day d.                                                          *)
(***************************************************************************)
UtcNow == now - tz

NextUtcMidnight == (UtcNow \div 24 + 1) * 24

SucceededOnUtcDay(u, d) ==
    Cardinality({i \in 1..Len(events[u]) :
                    (events[u][i].createdAt - tz) \div 24 = d /\ events[u][i].success})

(***************************************************************************)
(* C19: in sequential use, the dailyRequests left by a quota check is the  *)
(* number of calls of the identity that succeeded since the last UTC       *)
(* midnight (the counter is reset by the first check after a UTC midnight  *)
(* and by no other), and the resetAt reported by a login, by the           *)
(* statistics, by a successful call and by a daily rejection is the next   *)
(* UTC midnight.                                                           *)
(***************************************************************************)
C19_ResetAtUtcMidnight ==
    [][\A r \in Reqs :
         /\ \A u \in Fingerprints :
               CheckStep(r, u)
               => rateLimits'[u].dailyRequests = SucceededOnUtcDay(u, UtcNow \div 24)
         /\ (/\ req'[r] # req[r]
             /\ req'[r].pc = "done"
             /\ (req'[r].status = 200 \/ req'[r].verdict = "daily"))
            => req'[r].resetAt = NextUtcMidnight]_vars

(***************************************************************************)
(* The textual categories of a failure.                                    *)
(***************************************************************************)
RateCategory(msg) == "rate limit" \in msg \/ "quota" \in msg

FormatCategory(msg) == "invalid" \in msg \/ "format" \in msg

TimeoutCategory(msg) == "timeout" \in msg \/ "timed out" \in msg

(***************************************************************************)
(* C20: the failure response of a call carries the status of the first     *)
(* category, in the order rate/quota (429), format (400), timeout (408),   *)
(* that the text of the last provider failure belongs to, and 500 when it  *)
(* belongs to none; a text of the timeout category is answered 408 when it *)
(* is in neither of the two categories tested before.                      *)
(***************************************************************************)
C20_FirstCategoryWins ==
    [][\A r \in Reqs :
         FailStep(r)
         => LET msg == req'[r].lastError IN
            /\ RateCategory(msg) => req'[r].status = 429
            /\ (~RateCategory(msg) /\ FormatCategory(msg)) => req'[r].status = 400
            /\ (~RateCategory(msg) /\ ~FormatCategory(msg) /\ TimeoutCategory(msg))
                  => req'[r].status = 408
            /\ (~RateCategory(msg) /\ ~FormatCategory(msg) /\ ~TimeoutCategory(msg))
                  => req'[r].status = 500]_vars

C20_Witness ==
    \E r \in Reqs :
        /\ req[r].op = "colorise" /\ req[r].pc = "done"
        /\ req[r].lastError = {"invalid", "timeout"}
        /\ req[r].status = 400

(***************************************************************************)
(* C20 as stated: every failure whose text is in a category is answered    *)
(* with the status of that category, in particular every text of the       *)
(* timeout category with 408, and every text in no category with 500.      *)
(***************************************************************************)
C20_EveryCategoryText ==
    [][\A r \in Reqs :
         FailStep(r)
         => LET msg == req'[r].lastError IN
            /\ RateCategory(msg) => req'[r].status = 429
            /\ FormatCategory(msg) => req'[r].status = 400
            /\ TimeoutCategory(msg) => req'[r].status = 408
            /\ (~RateCategory(msg) /\ ~FormatCategory(msg) /\ ~TimeoutCategory(msg))
                  => req'[r].status = 500]_vars

(***************************************************************************)
(* C21: a call starts with the first provider; the next provider is tried  *)
(* only when the one before it failed, each provider at most once; the     *)
(* result and modelUsed are those of the first provider that succeeds; the *)
(* call fails only when the last provider in the order has failed, with    *)
(* the status of that provider's failure.                                  *)
(***************************************************************************)
C21_ProvidersInOrder ==
    [][\A r \in Reqs :
         LET order == IF variant = "db"
                      THEN <<"google/nano-banana", "flux-kontext-apps/restore-image">>
                      ELSE <<"flux-kontext-apps/restore-image">>
         IN
         /\ (req[r].pc \in {"idle", "done"} /\ req'[r].pc = "run")
               => (req'[r].idx = 1 /\ req'[r].modelUsed = "")
         /\ (req[r].pc = "run" /\ req'[r] # req[r])
               => /\ req[r].idx \in 1..Len(order)
                  /\ req'[r].pc \in {"run", "update", "done"}
                  /\ req'[r].pc = "run"
                        => (req[r].idx < Len(order) /\ req'[r].idx = req[r].idx + 1)
                  /\ req'[r].pc = "update"
                        => /\ req'[r].idx = req[r].idx
                           /\ req'[r].modelUsed = order[req[r].idx]
                           /\ req'[r].lastError = req[r].lastError
                  /\ req'[r].pc = "done"
                        => /\ req[r].idx = Len(order)
                           /\ req'[r].modelUsed = ""
                           /\ req'[r].status \in {400, 408, 429, 500}
                           /\ (req'[r].lastError = {"timeout"} => req'[r].status = 408)
                           /\ (req'[r].lastError = {} => req'[r].status = 500)
         /\ (req[r].pc = "update" /\ req'[r] # req[r])
               => (req'[r].pc = "done" /\ req'[r].modelUsed = req[r].modelUsed)]_vars

C21_Witness ==
    /\ variant = "db"
    /\ \E r \in Reqs :
          /\ req[r].op = "colorise" /\ req[r].pc = "done" /\ req[r].status = 200
          /\ req[r].idx = 2
          /\ req[r].lastError = {"timeout"}
          /\ req[r].modelUsed = "flux-kontext-apps/restore-image"

(***************************************************************************)
(* C22: a statistics request with a valid credential is answered 404       *)
(* exactly when no Identity is stored for the userId of the credential;    *)
(* no step removes an Identity, every issued credential has its Identity   *)
(* stored, and a request with an issued credential is never answered 404.  *)
(***************************************************************************)
C22_StatsNotFound ==
    /\ [][\A r \in Reqs, tok \in tokens \cup Orphans(Fingerprints) :
            Stats(r, tok)
            => /\ (req'[r].status = 404)
                    = (now < tok.payload.exp /\ tok.payload.userId \notin DOMAIN users)
               /\ tok \in tokens => req'[r].status \in {200, 401}]_vars
    /\ [][\A u \in DOMAIN users : u \in DOMAIN users']_vars
    /\ [](\A tk \in tokens : tk.payload.userId \in DOMAIN users)

C22_Witness ==
    /\ req["r2"].op = "stats" /\ req["r2"].status = 404 /\ req["r2"].userId = "dev-B"
    /\ "dev-B" \notin DOMAIN users
    /\ \E tk \in tokens : tk.payload.userId = "dev-A"
    /\ \E i \in 1..Len(events["dev-A"]) : TRUE

(***************************************************************************)
(* C23: a step of a request of one identity (login, quota check with its   *)
(* lazy reset, consume, counter update) leaves the users row, the          *)
(* rate_limits row, the sessions and the known addresses of every other    *)
(* identity as they were.                                                  *)
(***************************************************************************)
Row(tbl, v) == IF v \in DOMAIN tbl THEN tbl[v] ELSE NoVal

C23_OtherIdentitiesUntouched ==
    [][\A r \in Reqs, v \in Fingerprints :
          (req'[r] # req[r] /\ req'[r].userId # v)
          => /\ Row(users', v) = Row(users, v)
             /\ Row(rateLimits', v) = Row(rateLimits, v)
             /\ sessions'[v] = sessions[v]
             /\ userIps'[v] = userIps[v]]_vars

C23_Witness ==
    /\ req["r1"].op = "colorise" /\ req["r1"].pc = "done" /\ req["r1"].status = 200
    /\ users["dev-A"].requestCount = 1
    /\ rateLimits["dev-A"].lastResetDate = 1
    /\ "dev-B" \in DOMAIN rateLimits /\ rateLimits["dev-B"].lastResetDate = 0
    /\ Len(sessions["dev-B"]) = 1 /\ userIps["dev-B"] = {"ip2"}

(***************************************************************************)
(* C24: each counter is reset once per boundary crossing.  A quota check   *)
(* leaves a row that a second check at the same instant would not change;  *)
(* a check of an identity that already completed a call in the current     *)
(* day does not change dailyRequests, and one of an identity that already  *)
(* completed a call in the current clock hour does not change              *)
(* hourlyRequests.                                                         *)
(***************************************************************************)
C24_ResetOncePerBoundary ==
    [][\A r \in Reqs, u \in DOMAIN rateLimits :
         CheckStep(r, u)
         => /\ LazyReset(variant, rateLimits', u, now) = rateLimits'
            /\ SucceededOn(u, now \div 24) > 0
                 => rateLimits'[u].dailyRequests = rateLimits[u].dailyRequests
            /\ SucceededAt(u, now) > 0
                 => rateLimits'[u].hourlyRequests = rateLimits[u].hourlyRequests]_vars

(***************************************************************************)
(* C25: dailyRequests and hourlyRequests of every identity are never       *)
(* negative; a new row starts at 0, and a step leaves each counter as it   *)
(* was, adds exactly 1 to it, or sets it to 0.                             *)
(***************************************************************************)
C25_CountersStepOrReset ==
    /\ [](\A u \in DOMAIN rateLimits :
            rateLimits[u].dailyRequests >= 0 /\ rateLimits[u].hourlyRequests >= 0)
    /\ [][\A u \in DOMAIN rateLimits' :
            IF u \in DOMAIN rateLimits
            THEN /\ rateLimits'[u].dailyRequests
                      \in {rateLimits[u].dailyRequests, rateLimits[u].dailyRequests + 1, 0}
                 /\ rateLimits'[u].hourlyRequests
                      \in {rateLimits[u].hourlyRequests, rateLimits[u].hourlyRequests + 1, 0}
            ELSE rateLimits'[u].dailyRequests = 0 /\ rateLimits'[u].hourlyRequests = 0]_vars

C25_Witness ==
    /\ "dev-A" \in DOMAIN rateLimits
    /\ rateLimits["dev-A"].dailyRequests = 0
    /\ rateLimits["dev-A"].hourlyRequests = 2
    /\ SucceededAt("dev-A", now) = 2
    /\ now = 25

(***************************************************************************)
(* C26: the login response reports daily = 20 and remaining = 20 minus the *)
(* stored dailyRequests, which is 20 for an identity created by that       *)
(* login; the response of a successful call reports one less than 20 minus *)
(* the dailyRequests stored just before its consume step, that is after    *)
(* the lazy reset of its own quota check.                                  *)
(***************************************************************************)
RespondStep(r) == req[r].op = "auth" /\ req[r].pc = "sign" /\ req'[r].pc = "done"

C26_Snapshots ==
    [][\A r \in Reqs :
         LET u == req[r].userId IN
         /\ RespondStep(r)
              => /\ getDailyLimit(u) = 20
                 /\ req'[r].remaining = 20 - rateLimits[u].dailyRequests
                 /\ (users[u].requestCount = 0 /\ Len(sessions[u]) = 1)
                      => req'[r].remaining = 20
         /\ ConsumeStep(r)
              => req'[r].remaining = (20 - rateLimits[u].dailyRequests) - 1]_vars

C26_Witness ==
    /\ req["r1"].op = "colorise" /\ req["r1"].pc = "done" /\ req["r1"].status = 200
    /\ req["r1"].remaining = 19
    /\ now >= 24
    /\ SucceededOn("dev-A", 0) >= 2

(***************************************************************************)
(* C26 as stated: the remaining reported by a successful call is one less  *)
(* than the remaining before the call, so the quota check of the call      *)
(* leaves the remaining quota as it found it.                              *)
(***************************************************************************)
C26_OneLessThanBeforeCall ==
    [][\A r \in Reqs :
         LET u == req[r].userId IN
         /\ RespondStep(r) => req'[r].remaining = 20 - rateLimits[u].dailyRequests
         /\ ConsumeStep(r) => req'[r].remaining = (20 - rateLimits[u].dailyRequests) - 1
         /\ \A v \in DOMAIN rateLimits :
               (CheckStep(r, v) /\ req'[r].pc = "run")
               => 20 - rateLimits'[v].dailyRequests = 20 - rateLimits[v].dailyRequests]_vars

(***************************************************************************)
(* C27: a login of a stored identity sets its lastSeen to the time of the  *)
(* login, changes nothing else of the Identity and adds the address of the *)
(* caller to its known addresses; a login of an identity that is not       *)
(* stored creates it with requestCount 0 and the caller's address as its   *)
(* only known address; no step removes a known address, and adding a known *)
(* address leaves the set as it was.                                       *)
(***************************************************************************)
C27_LoginRecordsAddress ==
    /\ [][\A r \in Reqs, u \in Fingerprints :
            LoginStep(r, u)
            => LET clientIP == sessions'[u][Len(sessions'[u])].ipAddress IN
               /\ userIps'[u] = userIps[u] \cup {clientIP}
               /\ clientIP \in userIps[u] => userIps'[u] = userIps[u]
               /\ u \in DOMAIN users
                    => users'[u] = [users[u] EXCEPT !.lastSeen = now]
               /\ u \notin DOMAIN users
                    => /\ users'[u].requestCount = 0
                       /\ userIps'[u] = {clientIP}]_vars
    /\ [][\A u \in Fingerprints : userIps[u] \subseteq userIps'[u]]_vars

C27_Witness ==
    /\ "dev-A" \in DOMAIN users
    /\ users["dev-A"].createdAt = 0 /\ users["dev-A"].lastSeen = 24
    /\ users["dev-A"].requestCount = 0
    /\ userIps["dev-A"] = {"ip1", "ip2"}
    /\ Len(sessions["dev-A"]) = 2
    /\ sessions["dev-A"][1].ipAddress = "ip1" /\ sessions["dev-A"][2].ipAddress = "ip2"

(***************************************************************************)
(* C28: requestCount of an identity never decreases; the step that follows *)
(* a successful processing of time t adds 1 to requestCount and t to       *)
(* totalProcessingTime and sets averageProcessingTime to the new total     *)
(* divided by the new count; an Identity starts with count and total 0, so *)
(* with the event log of the database-backed server, requestCount is the   *)
(* number of logged calls and totalProcessingTime the sum of their times.  *)
(***************************************************************************)
RECURSIVE SumTimes(_)
SumTimes(ev) == IF ev = <<>> THEN 0 ELSE ev[1].processingTime + SumTimes(Tail(ev))

C28_ProcessingStatistics ==
    /\ [][\A u \in DOMAIN users :
            users'[u].requestCount >= users[u].requestCount]_vars
    /\ [][\A u \in DOMAIN users' \ DOMAIN users :
            users'[u].requestCount = 0 /\ users'[u].totalProcessingTime = 0]_vars
    /\ [][\A r \in Reqs :
            ConsumeStep(r)
            => LET u == req[r].userId IN
               /\ users'[u].requestCount = users[u].requestCount + 1
               /\ users'[u].totalProcessingTime
                     = users[u].totalProcessingTime + req[r].totalTime
               /\ users'[u].averageProcessingTime
                     = [num |-> users'[u].totalProcessingTime,
                        den |-> users'[u].requestCount]]_vars
    /\ [](variant = "db"
           => \A u \in DOMAIN users :
                 /\ users[u].requestCount = Len(events[u])
                 /\ users[u].totalProcessingTime = SumTimes(events[u]))

C28_Witness ==
    /\ variant = "db"
    /\ "dev-A" \in DOMAIN users
    /\ users["dev-A"].requestCount = 3
    /\ users["dev-A"].totalProcessingTime = 7
    /\ users["dev-A"].averageProcessingTime = [num |-> 7, den |-> 3]
    /\ Len(events["dev-A"]) = 3
    /\ events["dev-A"][1].processingTime = 3 /\ events["dev-A"][2].processingTime = 1

Rows(table) == {table[i] : i \in 1..Len(table)}

C30_SweepOnlyRemoves ==
    /\ [][CleanupJob
          => /\ UNCHANGED <<users, userIps, rateLimits, tokens, nextId, req>>
             /\ \A u \in Fingerprints :
                  /\ Rows(sessions'[u]) \subseteq Rows(sessions[u])
                  /\ Rows(events'[u]) \subseteq Rows(events[u])
                  /\ \A x \in Rows(sessions[u]) \ Rows(sessions'[u]) : x.createdAt < now
                  /\ \A x \in Rows(events[u]) \ Rows(events'[u]) : x.createdAt < now]_vars
    /\ [][\A u \in Fingerprints :
            /\ \A x \in Rows(sessions'[u]) \ Rows(sessions[u]) :
                  x.createdAt = now' /\ x.sessionId = nextId /\ x.sessionId \notin SessionIds
            /\ \A x \in Rows(events'[u]) \ Rows(events[u]) : x.createdAt = now']_vars
    /\ [](\A u \in DOMAIN users :
            /\ u \in DOMAIN rateLimits
            /\ rateLimits[u].dailyRequests \in 0..getDailyLimit(u)
            /\ rateLimits[u].hourlyRequests \in 0..hourlyLimit(u)
            /\ users[u].requestCount >= rateLimits[u].dailyRequests
            /\ userIps[u] # {})
    /\ [](\A tk \in tokens : tk.payload.userId \in DOMAIN users)

C30_Witness ==
    /\ req["r1"].op = "colorise" /\ req["r1"].pc = "update"
    /\ now = SessionRetention + 1
    /\ Cardinality(tokens) = 2
    /\ Len(sessions["dev-A"]) = 1 /\ sessions["dev-A"][1].createdAt = now
    /\ users["dev-A"].requestCount = 1 /\ Len(events["dev-A"]) = 1

(***************************************************************************)
(* C31: a login of an identity whose stored deviceFingerprint differs from *)
(* the supplied device_info proceeds as any login of a stored identity: it *)
(* keeps the stored deviceFingerprint, appends a session, and its response *)
(* is 200 with a credential for the same userId and that session.          *)
(***************************************************************************)
Mismatch(u) == u \in DOMAIN users /\ users[u].deviceFingerprint # u

C31_MismatchProceeds ==
    /\ [][\A r \in Reqs, u \in Fingerprints :
            (LoginStep(r, u) /\ Mismatch(u))
            => /\ users'[u] = [users[u] EXCEPT !.lastSeen = now]
               /\ Len(sessions'[u]) = Len(sessions[u]) + 1
               /\ sessions'[u][Len(sessions'[u])].sessionId = req'[r].sessionId
               /\ rateLimits' = rateLimits]_vars
    /\ [][\A r \in Reqs :
            (RespondStep(r) /\ Mismatch(req[r].userId))
            => /\ req'[r].status = 200
               /\ \E tk \in tokens' \ tokens :
                     /\ tk.payload.userId = req[r].userId
                     /\ tk.payload.sessionId = req[r].sessionId
                     /\ authenticateAnonymous(tk, tk.payload.iat)]_vars
    /\ [][\A u \in DOMAIN users :
            users'[u].deviceFingerprint = users[u].deviceFingerprint]_vars

C31_Witness ==
    /\ users["dev-A"].deviceFingerprint = LegacyFingerprint
    /\ users["dev-A"].lastSeen = 24
    /\ req["r1"].op = "auth" /\ req["r1"].pc = "done" /\ req["r1"].status = 200
    /\ req["r1"].userId = "dev-A"
    /\ \E tk \in tokens : tk.payload.userId = "dev-A" /\ tk.payload.iat = 24
    /\ Len(sessions["dev-A"]) = 2

(***************************************************************************)
(* C32: for every identity, in every reachable state, hourlyRequests is at *)
(* most dailyRequests.                                                     *)
(***************************************************************************)
C32_HourlyAtMostDaily ==
    \A u \in DOMAIN rateLimits :
        rateLimits[u].hourlyRequests <= rateLimits[u].dailyRequests

(***************************************************************************)
(* C33: when the last call of an identity was rejected with                *)
(* HourlyLimitExceeded and resetAt = T, its next call, checked at a time   *)
(* not before T with fewer than 20 successful calls in the current day, is *)
(* not rejected with HourlyLimitExceeded, also on the next calendar day.   *)
(***************************************************************************)
C33_RetryAfterResetAt ==
    [][\A r \in Reqs, u \in Fingerprints :
         (/\ req[r].op = "colorise" /\ req[r].pc = "done" /\ req[r].userId = u
          /\ req[r].verdict = "hourly"
          /\ CheckStep(r, u)
          /\ toISOString(now) >= req[r].resetAt
          /\ SucceededOn(u, toDateString(now)) < getDailyLimit(u))
         => req'[r].verdict # "hourly"]_vars

(***************************************************************************)
(* C34: in a run of the server in which never more than K protected calls  *)
(* of one identity are between their quota check and their consume at the  *)
(* same time, dailyRequests never exceeds 20 + (K - 1) and hourlyRequests  *)
(* never exceeds 5 + (K - 1); with K = 1 neither limit is exceeded.        *)
(***************************************************************************)
AtMostInFlight(K) == \A u \in Fingerprints : InFlight(u) <= K

WithinLimitsPlus(K) ==
    \A u \in DOMAIN rateLimits :
        /\ rateLimits[u].dailyRequests <= getDailyLimit(u) + (K - 1)
        /\ rateLimits[u].hourlyRequests <= hourlyLimit(u) + (K - 1)

C34_OvershootBounded ==
    /\ ([]AtMostInFlight(1)) => ([]WithinLimitsPlus(1))
    /\ ([]AtMostInFlight(2)) => ([]WithinLimitsPlus(2))

C34_Witness ==
    /\ "dev-A" \in DOMAIN rateLimits
    /\ rateLimits["dev-A"].dailyRequests = getDailyLimit("dev-A") + 1
    /\ rateLimits["dev-A"].hourlyRequests = hourlyLimit("dev-A")
    /\ \A r \in Reqs : req[r].op = "colorise" /\ req[r].pc = "done" /\ req[r].status = 200

(***************************************************************************)
(* C35: the remaining quota reported by a login, by the statistics, by a   *)
(* successful call and by a quota rejection is in 0..20, also when calls   *)
(* of the same identity run concurrently.                                  *)
(***************************************************************************)
StatsStep(r) == req'[r] # req[r] /\ req'[r].op = "stats" /\ req'[r].status = 200

RejectStep(r) ==
    /\ req[r].pc \in {"idle", "done"}
    /\ req'[r] # req[r]
    /\ req'[r].op = "colorise"
    /\ req'[r].verdict \in {"daily", "hourly"}

C35_RemainingInRange ==
    [][\A r \in Reqs :
         (RespondStep(r) \/ StatsStep(r) \/ ConsumeStep(r) \/ RejectStep(r))
         => req'[r].remaining \in 0..20]_vars

(***************************************************************************)
(* C36: the remaining quota reported by a login and by the statistics is   *)
(* the one the quota check would find at that instant, after its lazy      *)
(* reset: 20 when the stored lastResetDate is before today.                *)
(***************************************************************************)
C36_SnapshotAfterLazyReset ==
    [][\A r \in Reqs :
         (RespondStep(r) \/ StatsStep(r))
         => LET u == req'[r].userId IN
            /\ req'[r].remaining
                 = getDailyLimit(u) - LazyReset(variant, rateLimits, u, now)[u].dailyRequests
            /\ (u \in DOMAIN rateLimits /\ rateLimits[u].lastResetDate < toDateString(now))
                 => req'[r].remaining = getDailyLimit(u)]_vars

(***************************************************************************)
(* C37: in the database-backed server without cleanup, requestCount of an  *)
(* identity is the number of its usage events with success, and a step     *)
(* adds 1 to its quota counters exactly when it adds 1 to its requestCount *)
(* and exactly when it appends one usage event with success: the three     *)
(* happen together or not at all.                                          *)
(***************************************************************************)
Consumed(u) ==
    /\ u \in DOMAIN rateLimits /\ u \in DOMAIN rateLimits'
    /\ rateLimits'[u].dailyRequests = rateLimits[u].dailyRequests + 1
    /\ rateLimits'[u].hourlyRequests = rateLimits[u].hourlyRequests + 1

Counted(u) ==
    /\ u \in DOMAIN users /\ u \in DOMAIN users'
    /\ users'[u].requestCount = users[u].requestCount + 1

Logged(u) ==
    /\ Len(events'[u]) = Len(events[u]) + 1
    /\ SubSeq(events'[u], 1, Len(events[u])) = events[u]
    /\ events'[u][Len(events'[u])].success

C37_ConsumeCountLogTogether ==
    /\ [](\A u \in DOMAIN users :
            users[u].requestCount
              = Cardinality({i \in 1..Len(events[u]) : events[u][i].success}))
    /\ [][\A u \in Fingerprints :
            /\ Consumed(u) = Counted(u)
            /\ Counted(u) = Logged(u)
            /\ (~Consumed(u) /\ u \in DOMAIN users /\ u \in DOMAIN rateLimits)
                 => /\ users'[u].requestCount = users[u].requestCount
                    /\ events'[u] = events[u]
                    /\ rateLimits'[u].dailyRequests \in {rateLimits[u].dailyRequests, 0}
                    /\ rateLimits'[u].hourlyRequests \in {rateLimits[u].hourlyRequests, 0}]_vars

C37_Witness ==
    /\ "dev-A" \in DOMAIN users /\ "dev-A" \in DOMAIN rateLimits
    /\ users["dev-A"].requestCount = 2
    /\ Len(events["dev-A"]) = 2
    /\ rateLimits["dev-A"].dailyRequests = 1
    /\ \E r \in Reqs : req[r].op = "colorise" /\ req[r].pc = "done" /\ req[r].status = 408

(***************************************************************************)
(* C38: for every Identity, in every state reached from an empty database, *)
(* the stored deviceFingerprint is its userId, so no login finds a stored  *)
(* fingerprint that differs from the supplied device_info.                 *)
(***************************************************************************)
C38_FingerprintIsUserId ==
    /\ [](\A u \in DOMAIN users : users[u].deviceFingerprint = u)
    /\ [][\A r \in Reqs, u \in Fingerprints : LoginStep(r, u) => ~Mismatch(u)]_vars

C38_Witness ==
    /\ DOMAIN users = Fingerprints
    /\ \A u \in Fingerprints : users[u].deviceFingerprint = u
    /\ Len(sessions["dev-A"]) = 2
    /\ users["dev-A"].createdAt = 0 /\ users["dev-A"].lastSeen = 24
    /\ Cardinality(tokens) = 3

====
